---- MODULE Spec2Model ----
(***************************************************************************)
(* Model of the CRM component (src/project/src/components/CRM.jsx; the     *)
(* second copy src/unnamed/part_000 differs only in CSS class names).       *)
(*                                                                         *)
(* Two specifications share the variables:                                 *)
(*   Spec     - the component as a state machine: the React state, the     *)
(*              handlers, and the entity-store calls in flight.  The       *)
(*              entity store (Person) is an external collaborator: every   *)
(*              call may resolve successfully, resolve with an             *)
(*              unsuccessful response, or throw, at any later time.        *)
(*   SpecCalc - the birthday calculation done on each render               *)
(*              (getUpcomingBirthdays and the card map), with the current  *)
(*              time and the in-memory list drawn from bounded sets.       *)
(*                                                                         *)
(* Time is wall-clock time with TicksPerDay instants per calendar day      *)
(* (tick 0 is midnight).  dayjs values are immutable; the operators below  *)
(* follow dayjs: parsing 'YYYY-MM-DD' gives local midnight, dayjs() and    *)
(* dayjs(undefined) give the current instant, dayjs(null) and dayjs('')    *)
(* are invalid, .year(y) clamps Feb 29 to Feb 28 in a non-leap year,       *)
(* .diff(x, 'day') truncates toward zero.  One render reads the clock      *)
(* once (the reads of lines 88 and 197 are microseconds apart).            *)
(***************************************************************************)
EXTENDS Integers, Sequences, FiniteSets, TLC

VARIABLES
    people,         \* useState([])    line 10
    loading,        \* useState(false) line 11
    modalVisible,   \* useState(false) line 12
    editingPerson,  \* useState(null)  line 13
    form,           \* the field values of the antd form instance, line 14
    mounted,        \* the mount effect of lines 16-18 has run
    inflight,       \* entity-store calls awaited by a suspended handler
    nextReq,        \* id of the next entity-store call
    messages,       \* notifications shown: message.error / message.success
    completed,      \* history: the calls that have completed, in arrival order
    lastOpen,       \* history: how the modal was opened last
    now,            \* the clock read by dayjs()
    rendered,       \* the render body (lines 169-213) has run
    upcoming,       \* upcomingBirthdays of the last render (line 169)
    cards           \* the cards of the last render (lines 196-210)

vars == <<people, loading, modalVisible, editingPerson, form, mounted, inflight,
          nextReq, messages, completed, lastOpen, now, rendered, upcoming, cards>>

compVars == <<people, loading, modalVisible, editingPerson, form, mounted, inflight,
              nextReq, messages, completed, lastOpen>>

calcVars == <<now, rendered, upcoming, cards>>

-----------------------------------------------------------------------------
(* Bounds *)

MaxPeople == 2

TicksPerDay == 2

MaxRequests == 4

Years == {2023, 2024}

-----------------------------------------------------------------------------
(* Calendar arithmetic (what dayjs / Date compute) *)

IsLeap(y) == (y % 4 = 0 /\ y % 100 # 0) \/ y % 400 = 0

DaysInMonth(y, m) ==
    IF m = 2 THEN (IF IsLeap(y) THEN 29 ELSE 28)
    ELSE IF m \in {4, 6, 9, 11} THEN 30 ELSE 31

RECURSIVE DaysBeforeMonth(_, _)
DaysBeforeMonth(y, m) ==
    IF m = 1 THEN 0 ELSE DaysBeforeMonth(y, m - 1) + DaysInMonth(y, m - 1)

\* number of the calendar day (proleptic Gregorian day count)
DayNumber(y, m, d) ==
    365 * (y - 1) + ((y - 1) \div 4) - ((y - 1) \div 100) + ((y - 1) \div 400)
        + DaysBeforeMonth(y, m) + d

\* absolute wall-clock instant of a valid dayjs value
Instant(x) == DayNumber(x.year, x.month, x.day) * TicksPerDay + x.tick

-----------------------------------------------------------------------------
(* Birth dates as held in a contact record *)

NullBirthday      == [kind |-> "null",      year |-> 0, month |-> 0, day |-> 0]
UndefinedBirthday == [kind |-> "undefined", year |-> 0, month |-> 0, day |-> 0]
EmptyBirthday     == [kind |-> "empty",     year |-> 0, month |-> 0, day |-> 0]

BirthDate(y, m, d) == [kind |-> "date", year |-> y, month |-> m, day |-> d]

\* JavaScript truthiness of person.birthday: null, undefined and '' are falsy
TruthyNullOnly(birthday) == birthday.kind # "null"
Truthy(birthday) == birthday.kind = "date"

-----------------------------------------------------------------------------
(* dayjs *)

InvalidDayjs == [valid |-> FALSE, year |-> 0, month |-> 0, day |-> 0, tick |-> 0]

\* dayjs(x)
Dayjs(birthday, clock) ==
    CASE birthday.kind = "date" ->
            [valid |-> TRUE, year |-> birthday.year, month |-> birthday.month,
             day |-> birthday.day, tick |-> 0]
      [] birthday.kind = "undefined" -> clock
      [] OTHER -> InvalidDayjs

\* x.year(y): a new value with the year replaced, the day clamped to the month
SetYear(x, y) ==
    IF ~x.valid THEN x
    ELSE [x EXCEPT !.year = y,
                   !.day = IF x.day > DaysInMonth(y, x.month)
                           THEN DaysInMonth(y, x.month) ELSE x.day]

\* x.add(1, 'year'): a NEW value; x itself is not changed
AddYear(x) == SetYear(x, x.year + 1)

\* a.isBefore(b)
IsBefore(a, b) == a.valid /\ b.valid /\ Instant(a) < Instant(b)

\* truncation toward zero (dayjs absFloor)
AbsFloor(n, d) == IF n < 0 THEN -((-n) \div d) ELSE n \div d

DiffDayFloor(a, b) == (Instant(a) - Instant(b)) \div TicksPerDay
\* a.diff(b, 'day') for valid a, b
DiffDay(a, b) == AbsFloor(Instant(a) - Instant(b), TicksPerDay)

\* a.diff(b): milliseconds, NaN when either is invalid (a NaN comparator
\* result is treated as 0 by Array.prototype.sort)
DiffMs(a, b) == IF a.valid /\ b.valid THEN Instant(a) - Instant(b) ELSE 0

-----------------------------------------------------------------------------
(* getUpcomingBirthdays, lines 87-104 *)

\* lines 91-94 / 97-100 / 198-199: the value of nextBirthday after the `if`.
\* The result of nextBirthday.add(1, 'year') is discarded, so nextBirthday
\* keeps the current year whether or not it is before today.
NextBirthday(birthday, today) ==
    LET nextBirthday == SetYear(Dayjs(birthday, today), today.year)
        discarded    == IF IsBefore(nextBirthday, today)
                        THEN AddYear(nextBirthday) ELSE nextBirthday
    IN  nextBirthday

\* the filter callback, lines 89-96 (NaN <= 30 is false)
KeepPerson(person, today) ==
    IF ~Truthy(person.birthday) THEN FALSE
    ELSE LET nextBirthday == NextBirthday(person.birthday, today)
         IN  nextBirthday.valid /\ DiffDay(nextBirthday, today) <= 30

RECURSIVE Filter(_, _)
Filter(list, today) ==
    IF list = << >> THEN << >>
    ELSE IF KeepPerson(Head(list), today)
         THEN <<Head(list)>> \o Filter(Tail(list), today)
         ELSE Filter(Tail(list), today)

\* the sort comparator, lines 96-102
Compare(a, b, today) ==
    DiffMs(NextBirthday(a.birthday, today), NextBirthday(b.birthday, today))

\* Array.prototype.sort is stable: x goes after every element not greater
RECURSIVE Insert(_, _, _)
Insert(x, sorted, today) ==
    IF sorted = << >> THEN <<x>>
    ELSE IF Compare(Head(sorted), x, today) <= 0
         THEN <<Head(sorted)>> \o Insert(x, Tail(sorted), today)
         ELSE <<x>> \o sorted

RECURSIVE SortFrom(_, _, _)
SortFrom(list, sorted, today) ==
    IF list = << >> THEN sorted
    ELSE SortFrom(Tail(list), Insert(Head(list), sorted, today), today)

getUpcomingBirthdays(list, today) == SortFrom(Filter(list, today), << >>, today)

\* the card of one person, lines 196-210
Card(person, today) ==
    LET nextBirthday == NextBirthday(person.birthday, today)
        daysUntil    == DiffDay(nextBirthday, today)
    IN  [_id |-> person._id,
         birthday |-> person.birthday,
         shownYear |-> nextBirthday.year,
         shownMonth |-> nextBirthday.month,
         shownDay |-> nextBirthday.day,
         daysUntil |-> daysUntil,
         label |-> IF daysUntil = 0 THEN "Today!" ELSE "days"]

-----------------------------------------------------------------------------
(* Inputs of the calculation (SpecCalc) *)

Birthdays ==
    {NullBirthday, UndefinedBirthday, EmptyBirthday,
     BirthDate(1990, 1, 5), BirthDate(1992, 2, 29), BirthDate(1990, 5, 20),
     BirthDate(1990, 6, 15), BirthDate(1990, 12, 28)}

Contact(id, birthday) == [_id |-> id, firstName |-> "A", birthday |-> birthday]

\* the lists of at most MaxPeople contacts; the i-th contact has _id = i
PeopleLists ==
    UNION {{[i \in 1..n |-> Contact(i, f[i])] : f \in [1..n -> Birthdays]}
           : n \in 0..MaxPeople}

Clocks ==
    {[valid |-> TRUE, year |-> y, month |-> m, day |-> d, tick |-> t] :
        y \in Years, m \in 1..12, d \in 1..31, t \in 0..(TicksPerDay - 1)}

ValidClocks == {c \in Clocks : c.day <= DaysInMonth(c.year, c.month)}

-----------------------------------------------------------------------------
(* The component (Spec) *)

NoPerson == [_id |-> 0, firstName |-> "", birthday |-> NullBirthday]

P1 == [_id |-> 1, firstName |-> "A", birthday |-> BirthDate(1990, 6, 15)]
P2 == [_id |-> 2, firstName |-> "B", birthday |-> NullBirthday]

\* the data a list() response may carry
ListData == {<< >>, <<P1>>, <<P1, P2>>}

Outcomes == {"ok", "unsuccessful", "throw"}

EmptyForm == [firstName |-> "", birthday |-> NullBirthday]

\* what the user may type into the form
FormInputs == {[firstName |-> "C", birthday |-> BirthDate(1990, 5, 20)]}

Elems(list) == {list[i] : i \in 1..Len(list)}

\* calls whose completion starts a reload; each keeps one request id free
Reserved == Cardinality({r \in inflight : r.op # "list"})

CanIssue(n) == nextReq + Reserved + n - 1 <= MaxRequests

Request(op, arg, data) == [id |-> nextReq, op |-> op, arg |-> arg, data |-> data]

Done(r, outcome, data) == [id |-> r.id, op |-> r.op, outcome |-> outcome, data |-> data]

Init ==
    /\ people = << >>
    /\ loading = FALSE
    /\ modalVisible = FALSE
    /\ editingPerson = NoPerson
    /\ form = EmptyForm
    /\ mounted = FALSE
    /\ inflight = {}
    /\ nextReq = 1
    /\ messages = {}
    /\ completed = << >>
    /\ lastOpen = [kind |-> "none", _id |-> 0]
    /\ now = [valid |-> TRUE, year |-> 2024, month |-> 6, day |-> 1, tick |-> 0]
    /\ rendered = FALSE
    /\ upcoming = << >>
    /\ cards = << >>

\* loadPeople up to its await, lines 20-23: setLoading(true); Person.list()
LoadPeopleStart ==
    /\ loading' = TRUE
    /\ inflight' = inflight \cup {Request("list", 0, EmptyForm)}
    /\ nextReq' = nextReq + 1

\* the mount effect, lines 16-18
Mount ==
    /\ ~mounted
    /\ mounted' = TRUE
    /\ LoadPeopleStart
    /\ UNCHANGED <<people, modalVisible, editingPerson, form, messages,
                   completed, lastOpen>>
    /\ UNCHANGED calcVars

\* the list the response handler of loadPeople stores, lines 24-26
PeopleAfterListAnyResponse(r, outcome, data) ==
    IF outcome # "throw" THEN data ELSE people
PeopleAfterListUnlessNewer(r, outcome, data) ==
    IF outcome = "ok" /\ ~(\E q \in inflight : q.op = "list" /\ q.id > r.id)
    THEN data ELSE people
PeopleAfterList(r, outcome, data) ==
    IF outcome = "ok" THEN data ELSE people

\* loadPeople after its await, lines 23-30
LoadPeopleReturns(r, outcome, data) ==
    /\ r \in inflight
    /\ r.op = "list"
    /\ outcome = "throw" => data = << >>
    /\ people' = PeopleAfterList(r, outcome, data)
    /\ messages' = IF outcome = "throw"
                   THEN messages \cup {[req |-> r.id, level |-> "error",
                                        text |-> "Failed to load people"]}
                   ELSE messages
    /\ loading' = FALSE
    /\ inflight' = inflight \ {r}
    /\ completed' = Append(completed, Done(r, outcome, data))
    /\ UNCHANGED <<modalVisible, editingPerson, form, mounted, nextReq, lastOpen>>
    /\ UNCHANGED calcVars

\* lines 33-37
EditingPersonAfterAddKept == editingPerson
EditingPersonAfterAdd == NoPerson

HandleAdd ==
    /\ mounted
    /\ editingPerson' = EditingPersonAfterAdd
    /\ form' = EmptyForm
    /\ modalVisible' = TRUE
    /\ lastOpen' = [kind |-> "add", _id |-> 0]
    /\ UNCHANGED <<people, loading, mounted, inflight, nextReq, messages, completed>>
    /\ UNCHANGED calcVars

\* lines 39-46; person is a row of the table (dataSource = people)
HandleEdit(person) ==
    /\ mounted
    /\ person \in Elems(people)
    /\ editingPerson' = person
    /\ form' = [firstName |-> person.firstName,
                birthday |-> IF Truthy(person.birthday) THEN person.birthday
                             ELSE NullBirthday]
    /\ modalVisible' = TRUE
    /\ lastOpen' = [kind |-> "edit", _id |-> person._id]
    /\ UNCHANGED <<people, loading, mounted, inflight, nextReq, messages, completed>>
    /\ UNCHANGED calcVars

\* onCancel and the Cancel button, lines 234 and 294
Cancel ==
    /\ modalVisible
    /\ modalVisible' = FALSE
    /\ UNCHANGED <<people, loading, editingPerson, form, mounted, inflight,
                   nextReq, messages, completed, lastOpen>>
    /\ UNCHANGED calcVars

\* the user types into the form fields of the open modal, lines 245-291
FillForm(values) ==
    /\ modalVisible
    /\ form # values
    /\ form' = values
    /\ UNCHANGED <<people, loading, modalVisible, editingPerson, mounted,
                   inflight, nextReq, messages, completed, lastOpen>>
    /\ UNCHANGED calcVars

\* handleDelete up to its await, lines 48-50
HandleDelete(person) ==
    /\ mounted
    /\ person \in Elems(people)
    /\ CanIssue(2)
    /\ inflight' = inflight \cup {Request("delete", person._id, EmptyForm)}
    /\ nextReq' = nextReq + 1
    /\ UNCHANGED <<people, loading, modalVisible, editingPerson, form, mounted,
                   messages, completed, lastOpen>>
    /\ UNCHANGED calcVars

\* handleDelete after its await, lines 50-55
HandleDeleteReturns(r, outcome) ==
    /\ r \in inflight
    /\ r.op = "delete"
    /\ completed' = Append(completed, Done(r, outcome, << >>))
    /\ IF outcome = "throw"
       THEN /\ messages' = messages \cup {[req |-> r.id, level |-> "error",
                                           text |-> "Failed to delete person"]}
            /\ inflight' = inflight \ {r}
            /\ UNCHANGED <<loading, nextReq>>
       ELSE /\ messages' = messages \cup {[req |-> r.id, level |-> "success",
                                           text |-> "Person deleted successfully"]}
            /\ loading' = TRUE
            /\ inflight' = (inflight \ {r}) \cup {Request("list", 0, EmptyForm)}
            /\ nextReq' = nextReq + 1
    /\ UNCHANGED <<people, modalVisible, editingPerson, form, mounted, lastOpen>>
    /\ UNCHANGED calcVars

\* handleSubmit up to its await, lines 58-69; onFinish passes the validated
\* field values (firstName and birthday are required, lines 248 and 277)
HandleSubmit ==
    /\ modalVisible
    /\ form.firstName # ""
    /\ Truthy(form.birthday)
    /\ CanIssue(2)
    /\ inflight' = inflight \cup
         {IF editingPerson # NoPerson
          THEN Request("update", editingPerson._id, form)
          ELSE Request("create", 0, form)}
    /\ nextReq' = nextReq + 1
    /\ UNCHANGED <<people, loading, modalVisible, editingPerson, form, mounted,
                   messages, completed, lastOpen>>
    /\ UNCHANGED calcVars

\* handleSubmit after its await, lines 66-77
HandleSubmitReturns(r, outcome) ==
    /\ r \in inflight
    /\ r.op \in {"create", "update"}
    /\ completed' = Append(completed, Done(r, outcome, << >>))
    /\ IF outcome = "throw"
       THEN /\ messages' = messages \cup {[req |-> r.id, level |-> "error",
                                           text |-> "Failed to save person"]}
            /\ inflight' = inflight \ {r}
            /\ UNCHANGED <<loading, nextReq, modalVisible>>
       ELSE /\ messages' = messages \cup
                  {[req |-> r.id, level |-> "success",
                    text |-> IF r.op = "update" THEN "Person updated successfully"
                             ELSE "Person added successfully"]}
            /\ modalVisible' = FALSE
            /\ loading' = TRUE
            /\ inflight' = (inflight \ {r}) \cup {Request("list", 0, EmptyForm)}
            /\ nextReq' = nextReq + 1
    /\ UNCHANGED <<people, editingPerson, form, mounted, lastOpen>>
    /\ UNCHANGED calcVars

Next ==
    \/ Mount
    \/ \E r \in inflight, outcome \in Outcomes, data \in ListData :
          LoadPeopleReturns(r, outcome, data)
    \/ HandleAdd
    \/ \E person \in Elems(people) : HandleEdit(person)
    \/ Cancel
    \/ \E values \in FormInputs : FillForm(values)
    \/ \E person \in Elems(people) : HandleDelete(person)
    \/ \E r \in inflight, outcome \in Outcomes : HandleDeleteReturns(r, outcome)
    \/ HandleSubmit
    \/ \E r \in inflight, outcome \in Outcomes : HandleSubmitReturns(r, outcome)

Spec == Init /\ [][Next]_vars

-----------------------------------------------------------------------------
(* The calculation on render (SpecCalc) *)

InitCalc ==
    /\ people \in PeopleLists
    /\ now \in ValidClocks
    /\ rendered = FALSE
    /\ upcoming = << >>
    /\ cards = << >>
    /\ loading = FALSE
    /\ modalVisible = FALSE
    /\ editingPerson = NoPerson
    /\ form = EmptyForm
    /\ mounted = TRUE
    /\ inflight = {}
    /\ nextReq = 1
    /\ messages = {}
    /\ completed = << >>
    /\ lastOpen = [kind |-> "none", _id |-> 0]

\* the render body, lines 169 and 189-213
Render ==
    /\ ~rendered
    /\ rendered' = TRUE
    /\ upcoming' = getUpcomingBirthdays(people, now)
    /\ cards' = [i \in 1..Len(upcoming') |-> Card(upcoming'[i], now)]
    /\ UNCHANGED now
    /\ UNCHANGED compVars

NextCalc == Render

SpecCalc == InitCalc /\ [][NextCalc]_vars

-----------------------------------------------------------------------------
(* Reference notions of the specification: calendar dates, no time of day *)

Today == DayNumber(now.year, now.month, now.day)

HasDate(person) == person.birthday.kind = "date"

\* Feb 29: the specification leaves the re-anchoring policy open
IsLeapDay(person) == person.birthday.month = 2 /\ person.birthday.day = 29

\* the birth month/day placed in the current year
ThisYearOccurrence(person) ==
    DayNumber(now.year, person.birthday.month, person.birthday.day)

\* the soonest date >= today with the birth month/day
NextOccurrence(person) ==
    IF ThisYearOccurrence(person) < Today
    THEN DayNumber(now.year + 1, person.birthday.month, person.birthday.day)
    ELSE ThisYearOccurrence(person)

DaysUntil(person) == NextOccurrence(person) - Today

Plain(person) == HasDate(person) /\ ~IsLeapDay(person)

ShownDay(card) == DayNumber(card.shownYear, card.shownMonth, card.shownDay)

-----------------------------------------------------------------------------
(* Claims about the calculation, checked under SpecCalc *)

\* C1: getUpcomingBirthdays returns exactly the contacts that have a birth
\* date and whose days-until value (next occurrence minus current date, in
\* days) lies in [0, 30].  (Feb 29 birth dates are left out of the
\* comparison.)  Stated as the claim reads; the code violates it.
C1_ExactlyWindow ==
    rendered =>
        \A person \in Elems(people) :
            (HasDate(person) => ~IsLeapDay(person)) =>
                ((person \in Elems(upcoming))
                    <=> (HasDate(person) /\ DaysUntil(person) \in 0..30))

\* C2: when the birth month/day in the current year is strictly before
\* today the next occurrence is re-anchored to the following year: the next
\* occurrence shown in a card is never before today, and a contact whose
\* anniversary already fell this year and comes back more than 30 days from
\* now is not in the result.  Stated as the claim reads; the code violates it.
C2_Reanchored ==
    rendered =>
        /\ \A i \in 1..Len(cards) : ShownDay(cards[i]) >= Today
        /\ \A person \in Elems(people) :
              (Plain(person) /\ ThisYearOccurrence(person) < Today
                 /\ DaysUntil(person) > 30)
                  => person \notin Elems(upcoming)

\* C3: the returned sequence is ascending by days-until-next-occurrence,
\* also across a year boundary.  Stated as the claim reads; the code
\* violates it.
C3_SortedByDaysUntil ==
    rendered =>
        \A i, j \in 1..Len(upcoming) :
            (i < j /\ Plain(upcoming[i]) /\ Plain(upcoming[j]))
                => DaysUntil(upcoming[i]) <= DaysUntil(upcoming[j])

\* C6: a contact with no birth date (null, undefined or empty) is never in
\* the result of getUpcomingBirthdays and gets no card, whatever the current
\* date and the list.
C6_NoBirthDateExcluded ==
    rendered =>
        \A person \in Elems(people) :
            person.birthday.kind \in {"null", "undefined", "empty"} =>
                /\ person \notin Elems(upcoming)
                /\ \A i \in 1..Len(cards) : cards[i]._id # person._id

\* C6 witness: a render of a list that holds a contact with an undefined
\* birth date next to a contact that is in the result
C6_Witness ==
    /\ rendered
    /\ \E person \in Elems(people) : person.birthday.kind = "undefined"
    /\ upcoming # << >>

\* C7: a contact whose birth month/day is today's month/day is in the
\* upcoming list with days-until 0 and the label "Today!", at every time of
\* day.
C7_BirthdayToday ==
    rendered =>
        \A person \in Elems(people) :
            (HasDate(person) /\ person.birthday.month = now.month
                /\ person.birthday.day = now.day) =>
                /\ person \in Elems(upcoming)
                /\ \E i \in 1..Len(cards) :
                      /\ cards[i]._id = person._id
                      /\ cards[i].daysUntil = 0
                      /\ cards[i].label = "Today!"

\* C7 witness: a render after midnight of a list with a birthday today
C7_Witness ==
    /\ rendered
    /\ now.tick > 0
    /\ \E person \in Elems(people) :
          /\ HasDate(person)
          /\ person.birthday.month = now.month
          /\ person.birthday.day = now.day
          /\ person \in Elems(upcoming)

\* C8: the days-until value of a card is the number of calendar days from
\* the current date to the next occurrence the card shows, whatever the
\* time of day, and the label is "Today!" only when that occurrence is
\* today's date.  Stated as the claim reads; the code violates it.
C8_CalendarDays ==
    rendered =>
        \A i \in 1..Len(cards) :
            /\ cards[i].daysUntil = ShownDay(cards[i]) - Today
            /\ cards[i].label = "Today!" <=> ShownDay(cards[i]) = Today

-----------------------------------------------------------------------------
(* Claims about the component, checked under Spec *)

IsFailure(c) == c.outcome \in {"throw", "unsuccessful"}

Shown(id, level) == \E m \in messages : m.req = id /\ m.level = level

\* C4: every entity-store failure (a throw or an unsuccessful response of
\* list, create, update or delete) is shown with message.error, and no
\* success notification is shown for a failed mutation.  Stated as the claim
\* reads; the code violates it.
C4_FailuresNotified ==
    \A i \in 1..Len(completed) :
        IsFailure(completed[i]) =>
            /\ Shown(completed[i].id, "error")
            /\ completed[i].op # "list" => ~Shown(completed[i].id, "success")

LastDone == completed[Len(completed)]

NewRequests == inflight' \ inflight

GoneRequests == inflight \ inflight'

IsSave(r) == r.op \in {"create", "update"}

\* C9: a form submit issues exactly one store mutation, update with the _id
\* of the person of the last handleEdit when the modal was last opened by
\* handleEdit and create when it was last opened by handleAdd; the handler
\* closes the modal and issues one list() reload in the step in which that
\* mutation completes without throwing, and when it throws it leaves the
\* modal as it is and issues no reload; a list() is issued by nothing else
\* than the mount effect and the completion of a mutation.
C9_SubmitMutation ==
    [][/\ \A r \in NewRequests :
             IsSave(r) =>
                /\ NewRequests = {r}
                /\ GoneRequests = {}
                /\ lastOpen.kind \in {"add", "edit"}
                /\ lastOpen.kind = "edit" => (r.op = "update" /\ r.arg = lastOpen._id)
                /\ lastOpen.kind = "add" => r.op = "create"
                /\ modalVisible' = modalVisible
       /\ \A r \in GoneRequests :
             IsSave(r) =>
                /\ completed'[Len(completed')].id = r.id
                /\ IF completed'[Len(completed')].outcome = "throw"
                   THEN /\ modalVisible' = modalVisible
                        /\ NewRequests = {}
                   ELSE /\ modalVisible' = FALSE
                        /\ Cardinality(NewRequests) = 1
                        /\ \A n \in NewRequests : n.op = "list"
       /\ \A n \in NewRequests :
             n.op = "list" =>
                \/ ~mounted
                \/ \E r \in GoneRequests :
                      /\ r.op # "list"
                      /\ completed'[Len(completed')].id = r.id
                      /\ completed'[Len(completed')].outcome # "throw"
      ]_vars

\* C9 witness: after handleAdd and a create that threw, the modal was opened
\* by handleEdit, the update has completed, the modal is closed and the
\* reload is in flight
C9_Witness ==
    /\ ~modalVisible
    /\ lastOpen.kind = "edit"
    /\ \E i, j \in 1..Len(completed) :
          /\ i < j
          /\ completed[i].op = "create"
          /\ completed[i].outcome = "throw"
          /\ j = Len(completed)
          /\ completed[j].op = "update"
          /\ completed[j].outcome = "ok"
    /\ \E r \in inflight : r.op = "list"

ListsDone == {i \in 1..Len(completed) : completed[i].op = "list"}

\* the completed list() that was issued last
NewestList ==
    completed[CHOOSE i \in ListsDone :
                 \A j \in ListsDone : completed[j].id <= completed[i].id]

\* C10 as the claim reads: once all requests have completed, the people list
\* equals the response to the most recently issued list() request (when that
\* request succeeded).  The code violates it.
C10_NewestRequestWins ==
    (inflight = {} /\ ListsDone # {} /\ NewestList.outcome = "ok")
        => people = NewestList.data

OkListsDone == {i \in ListsDone : completed[i].outcome = "ok"}

\* the data of the successful list() response that arrived last
LastArrivedData ==
    IF OkListsDone = {} THEN << >>
    ELSE completed[CHOOSE i \in OkListsDone : \A j \in OkListsDone : j <= i].data

\* C10 amended: the people list equals the data of the successful list()
\* response that arrived last (the initial empty list when none succeeded),
\* whichever request it answers.
C10_LastArrivalWins == people = LastArrivedData

\* C10 witness: all requests have completed, two list() requests succeeded
\* with different data, and the older request's response arrived last
C10_Witness ==
    /\ inflight = {}
    /\ \E i, j \in OkListsDone :
          /\ i < j
          /\ j = Len(completed)
          /\ completed[i].id > completed[j].id
          /\ completed[i].data # completed[j].data
          /\ people = completed[j].data

ListsInFlight == {r \in inflight : r.op = "list"}

\* C11: the loading flag is true in every state in which at least one list()
\* request started by loadPeople is in flight, and false once none is in
\* flight, whatever the outcome of the requests and however overlapping
\* loadPeople calls interleave.  Stated as the claim reads; the code
\* violates it.
C11_LoadingIffListInFlight == loading <=> (ListsInFlight # {})

====
